---- MODULE Spec2Model ----
(***************************************************************************)
(* TabulaRAG web client: the upload page (Upload), the highlight view      *)
(* (HighlightView), the table renderer (DataTable) and the API client.     *)
(*                                                                         *)
(* Every asynchronous function of the client is modelled as a process      *)
(* whose pc names the await it is suspended at; the response to a request  *)
(* in flight is chosen by the action that delivers it.  Everything a       *)
(* continuation does between two awaits is one atomic action, as in the    *)
(* single-threaded JavaScript event loop.                                  *)
(***************************************************************************)
EXTENDS Integers, Sequences, FiniteSets, TLC

\* ------------------------------------------------------------------ bounds
MaxUploads == 2     \* onUpload invocations in one behaviour
MaxPolls == 2       \* getJob requests the backend may answer with a non-terminal status, per upload
MaxClicks == 1      \* clicks on a row of the table list in one behaviour
MaxRuns == 2        \* runs of the HighlightView effect (the mount and the changes of highlightId)
MaxRow == 6         \* cited row indices are drawn from 0..MaxRow and ExampleRow
ExampleRow == 42    \* one cited row far from the start of the table
MaxCited == 2       \* length of a cited rows array
MaxArg == 6         \* rowFrom and rowTo of a direct getSlice call are drawn from -MaxArg..MaxArg
MaxChecks == 4      \* checkStatus invocations of the app shell in one behaviour

\* ------------------------------------------------------- JavaScript values
Null == "<null>"
Undefined == "<undefined>"
NoProgress == -1    \* job.progress absent (null or undefined)

\* Truthiness of a string-or-absent value.
Truthy(v) == v \notin {Null, Undefined, ""}

\* a || b
Or(a, b) == IF Truthy(a) THEN a ELSE b

\* String(e?.message || e) for an Error e with message m: an Error whose
\* message is empty prints as "Error".
ErrText(m) == Or(m, "Error")

\* ------------------------------------------------------------ the backend
TableIds == {"t1", "t9"}

\* Row count, columns and display name of each backend table.
TableSize(t) == IF t = "t1" THEN 43 ELSE 5
AllColumns == <<"city", "amount">>
TableNameOf(t) == IF t = "t1" THEN "Sales" ELSE "Stock"

\* Answers of GET /tables: the ids of the listed tables.
TableLists == {{"t1"}, {"t1", "t9"}}

\* Texts carried by a failed request (new Error(await res.text())): the body
\* of a non-2xx answer, here the empty body, which String(e?.message || e)
\* prints as "Error".
FailMessages == {""}

SuccessStatuses == {"done", "indexing"}
PendingStatuses == {"queued", "processing", "paused"}

Job(s, p, m, t) == [status |-> s, progress |-> p, message |-> m, table_id |-> t]

NoJob == Job(Undefined, NoProgress, Undefined, Undefined)

\* Answers of GET /jobs/{id}.
JobResponses ==
    {Job(s, 100, Undefined, t) : s \in SuccessStatuses, t \in {Undefined, "t9"}}
    \cup {Job("error", NoProgress, m, Undefined) : m \in {Undefined, "", "bad header row"}}
    \cup {Job("processing", p, m, Undefined) : p \in {NoProgress, 30}, m \in {Undefined, "parsing"}}
    \cup {Job(s, 30, Undefined, Undefined) : s \in PendingStatuses}

Min(a, b) == IF a < b THEN a ELSE b
Max(a, b) == IF a > b THEN a ELSE b

\* ------------------------------------------------------------- api client
\* An optional array: None when absent, Some(a) when present.
None == <<>>
Some(a) == <<a>>

\* A request whose limit is not clamped.
SliceRequest_noclamp(tableId, rowFrom, rowTo, cols) ==
    [table |-> tableId,
     offset |-> Max(0, rowFrom),
     limit |-> rowTo - rowFrom,
     cols |-> IF cols # None /\ Len(cols[1]) > 0 THEN cols ELSE None]

\* getSlice: the request it sends.  cols is an optional array of column
\* names; the cols parameter is sent only for a present, non-empty array.
SliceRequest(tableId, rowFrom, rowTo, cols) ==
    [table |-> tableId,
     offset |-> Max(0, rowFrom),
     limit |-> Max(1, rowTo - rowFrom),
     cols |-> IF cols # None /\ Len(cols[1]) > 0 THEN cols ELSE None]

\* What the backend answers to a slice request: the rows of the table in
\* [offset, offset + limit), fewer when the table is shorter.  getSlice
\* returns the data with offset and limit added.
SliceOf(req) ==
    [table |-> req.table,
     columns |-> IF req.cols = None THEN AllColumns ELSE req.cols[1],
     offset |-> req.offset,
     limit |-> req.limit,
     nrows |-> Max(0, Min(TableSize(req.table) - req.offset, req.limit))]

NoSlice == [table |-> Null, columns |-> <<>>, offset |-> 0, limit |-> 0, nrows |-> 0]

\* ------------------------------------------------------------ upload page
VARIABLES
    file,           \* selected File (by its name) or Null
    name,           \* display name input
    tables,         \* cached table list (ids)
    busy,
    err,
    status,
    preview,        \* slice shown in the preview panel, or NoSlice
    previewErr,
    previewBusy,
    activeTableId,
    toast,
    toastTimers,    \* pending setTimeout(() => setToast(null), 2400)
    mountRefresh,   \* the refresh() of the mount effect: "pending" | "done" ("unmounted" on another route)
    up,             \* onUpload invocations
    pv              \* loadPreview invocations started from the table list

uploadVars == <<file, name, tables, busy, err, status, preview, previewErr,
                previewBusy, activeTableId, toast, toastTimers, mountRefresh, up, pv>>

\* -------------------------------------------------------- highlight view
VARIABLES
    highlightId,    \* route parameter
    hl,             \* the citation shown, or NoHighlight
    slice,          \* the window shown, or NoWindow
    viewErr,        \* err of HighlightView
    tableName,
    hv              \* runs of the effect on [highlightId]

viewVars == <<highlightId, hl, slice, viewErr, tableName, hv>>

\* ------------------------------------------------------------- api client
VARIABLES
    call            \* a getSlice invocation made on its own: arguments, request, outcome

apiVars == <<call>>

\* -------------------------------------------------------------- app shell
VARIABLES
    mcpStatus,      \* "online" | "offline" | "unknown"
    mounted,        \* the flag of the status effect's closure
    interval,       \* the 5 s interval is set
    chk             \* checkStatus invocations

appVars == <<mcpStatus, mounted, interval, chk>>

vars == <<uploadVars, viewVars, apiVars, appVars>>

DefaultName == "Uploaded Table"
Files == {"a.csv"}

Uploads == 1..MaxUploads
Clicks == 1..MaxClicks

UpIdle == [pc |-> "idle", jobId |-> Undefined, job |-> NoJob, polls |-> 0,
           lists |-> 0, slices |-> <<>>]
PvIdle == [pc |-> "idle", table |-> Null]

JobIdOf(i) == "j" \o ToString(i)

UploadInit ==
    /\ file = Null
    /\ name = DefaultName
    /\ tables = {}
    /\ busy = FALSE
    /\ err = Null
    /\ status = Null
    /\ preview = NoSlice
    /\ previewErr = Null
    /\ previewBusy = FALSE
    /\ activeTableId = Null
    /\ toast = Null
    /\ toastTimers = 0
    /\ mountRefresh = "pending"
    /\ up = [i \in Uploads |-> UpIdle]
    /\ pv = [k \in Clicks |-> PvIdle]

\* refresh() of the mount effect resolves: setTables(t).
MountRefreshResp(t) ==
    /\ mountRefresh = "pending"
    /\ mountRefresh' = "done"
    /\ tables' = t
    /\ UNCHANGED <<viewVars, apiVars, appVars>>
    /\ UNCHANGED <<file, name, busy, err, status, preview, previewErr, previewBusy,
                   activeTableId, toast, toastTimers, up, pv>>

\* refresh().catch(console.error): the failure is logged, no state changes.
MountRefreshFail ==
    /\ mountRefresh = "pending"
    /\ mountRefresh' = "done"
    /\ UNCHANGED <<viewVars, apiVars, appVars>>
    /\ UNCHANGED <<file, name, tables, busy, err, status, preview, previewErr,
                   previewBusy, activeTableId, toast, toastTimers, up, pv>>

onSelectFile(nextFile) ==
    /\ file' = nextFile
    /\ name' = IF nextFile # Null THEN nextFile ELSE name
    /\ UNCHANGED <<viewVars, apiVars, appVars>>
    /\ UNCHANGED <<tables, busy, err, status, preview, previewErr, previewBusy,
                   activeTableId, toast, toastTimers, mountRefresh, up, pv>>

\* The file input's onChange; the input is rendered in both branches of the panel.
SelectFile == \E f \in Files \cup {Null} : onSelectFile(f)

\* Texts typed into the display name input.
Names == {"Q3 sales"}

\* onChange of the display name input, which is rendered while a file is selected.
EditName(n) ==
    /\ file # Null
    /\ name' = n
    /\ UNCHANGED <<viewVars, apiVars, appVars>>
    /\ UNCHANGED <<file, tables, busy, err, status, preview, previewErr, previewBusy,
                   activeTableId, toast, toastTimers, mountRefresh, up, pv>>

\* The Upload button without its busy guard.
UploadButtonEnabled_nobusy == file # Null

\* disabled={!file || busy} of the Upload button.
UploadButtonEnabled == file # Null /\ ~busy

\* The first invocation slot not used yet.
NextUpload == CHOOSE i \in Uploads : up[i].pc = "idle" /\ \A j \in 1..(i - 1) : up[j].pc # "idle"

\* An invocation that has returned, by break or through the catch: its locals are gone.
Returned == [UpIdle EXCEPT !.pc = "returned"]

\* A catch without the finally: busy is left as it is.
Thrown_nofinally(i, m) ==
    /\ err' = ErrText(m)
    /\ busy' = busy
    /\ up' = [up EXCEPT ![i] = Returned]

\* try { ... } catch (e) { setErr(String(e?.message || e)) } finally { setBusy(false) }
\* for an error with message m thrown by invocation i.
Thrown(i, m) ==
    /\ err' = ErrText(m)
    /\ busy' = FALSE
    /\ up' = [up EXCEPT ![i] = Returned]

\* Click on Upload: onUpload up to its first await (uploadTable).
ClickUpload ==
    /\ UploadButtonEnabled
    /\ \E i \in Uploads : up[i].pc = "idle"
    /\ file # Null
    /\ busy' = TRUE
    /\ err' = Null
    /\ status' = "Uploading..."
    /\ up' = [up EXCEPT ![NextUpload] = [UpIdle EXCEPT !.pc = "awaitUpload"]]
    /\ UNCHANGED <<viewVars, apiVars, appVars>>
    /\ UNCHANGED <<file, name, tables, preview, previewErr, previewBusy, activeTableId,
                   toast, toastTimers, mountRefresh, pv>>

\* A submission answer taken without looking at its job id.
UploadResp_nocheck(i, jobId) ==
    /\ up[i].pc = "awaitUpload"
    /\ up' = [up EXCEPT ![i] = [@ EXCEPT !.pc = "awaitJob", !.jobId = jobId,
                                          !.job = NoJob, !.polls = 1]]
    /\ UNCHANGED <<err, busy>>
    /\ UNCHANGED <<viewVars, apiVars, appVars>>
    /\ UNCHANGED <<file, name, tables, status, preview, previewErr, previewBusy,
                   activeTableId, toast, toastTimers, mountRefresh, pv>>

\* uploadTable resolves with res.job_id = jobId.
UploadResp(i, jobId) ==
    /\ up[i].pc = "awaitUpload"
    /\ IF ~Truthy(jobId)
       THEN Thrown(i, "Upload started, but no job id was returned.")
       ELSE /\ up' = [up EXCEPT ![i] = [@ EXCEPT !.pc = "awaitJob", !.jobId = jobId,
                                                 !.job = NoJob, !.polls = 1]]
            /\ UNCHANGED <<err, busy>>
    /\ UNCHANGED <<viewVars, apiVars, appVars>>
    /\ UNCHANGED <<file, name, tables, status, preview, previewErr, previewBusy,
                   activeTableId, toast, toastTimers, mountRefresh, pv>>

\* uploadTable rejects.
UploadFail(i, m) ==
    /\ up[i].pc = "awaitUpload"
    /\ Thrown(i, m)
    /\ UNCHANGED <<viewVars, apiVars, appVars>>
    /\ UNCHANGED <<file, name, tables, status, preview, previewErr, previewBusy,
                   activeTableId, toast, toastTimers, mountRefresh, pv>>

\* A loop that takes only "done" for success.
IsSuccess_doneonly(s) == s = "done"

\* A loop that takes a failed job for a finished one.
IsSuccess_errortoo(s) == s \in {"done", "indexing", "error"}

\* job.status === "done" || job.status === "indexing"
IsSuccess(s) == s = "done" \/ s = "indexing"

\* A loop that takes every status it does not know for a failure.
IsError_unknown(s) == s \notin {"done", "indexing", "queued", "processing"}

\* job.status === "error"
IsError(s) == s = "error"

\* An error branch that drops the job's message.
JobErrorMessage_nomessage(job) == "Upload failed."

\* new Error(job.message || "Upload failed.")
JobErrorMessage(job) == Or(job.message, "Upload failed.")

\* A status line without the default of the progress.
StatusLine_nodefault(job) ==
    (IF Truthy(job.message) THEN job.message \o " " ELSE "")
        \o job.status \o " ("
        \o (IF job.progress = NoProgress THEN "undefined" ELSE ToString(job.progress)) \o "%)"

\* `${msg}${job.status} (${job.progress ?? 0}%)` with msg = job.message ? `${job.message} ` : ""
StatusLine(job) ==
    (IF Truthy(job.message) THEN job.message \o " " ELSE "")
        \o job.status \o " ("
        \o ToString(IF job.progress = NoProgress THEN 0 ELSE job.progress) \o "%)"

\* getJob resolves with job: one iteration of the polling loop, up to its next await.
JobResp(i, job) ==
    /\ up[i].pc = "awaitJob"
    /\ job.status \in PendingStatuses => up[i].polls < MaxPolls
    /\ IF IsSuccess(job.status)
       THEN /\ status' = Null
            /\ up' = [up EXCEPT ![i] = [@ EXCEPT !.pc = "awaitRefresh", !.job = job,
                                                 !.lists = @ + 1]]
            /\ UNCHANGED <<err, busy>>
       ELSE IF IsError(job.status)
       THEN /\ Thrown(i, JobErrorMessage(job))
            /\ UNCHANGED status
       ELSE /\ status' = StatusLine(job)
            /\ up' = [up EXCEPT ![i] = [@ EXCEPT !.pc = "sleep", !.job = job]]
            /\ UNCHANGED <<err, busy>>
    /\ UNCHANGED <<viewVars, apiVars, appVars>>
    /\ UNCHANGED <<file, name, tables, preview, previewErr, previewBusy, activeTableId,
                   toast, toastTimers, mountRefresh, pv>>

\* getJob rejects (network failure or non-2xx answer).
JobFail(i, m) ==
    /\ up[i].pc = "awaitJob"
    /\ Thrown(i, m)
    /\ UNCHANGED <<viewVars, apiVars, appVars>>
    /\ UNCHANGED <<file, name, tables, status, preview, previewErr, previewBusy,
                   activeTableId, toast, toastTimers, mountRefresh, pv>>

\* The 500 ms timer fires: the loop issues the next getJob.
Wake(i) ==
    /\ up[i].pc = "sleep"
    /\ up' = [up EXCEPT ![i] = [@ EXCEPT !.pc = "awaitJob", !.job = NoJob, !.polls = @ + 1]]
    /\ UNCHANGED <<viewVars, apiVars, appVars>>
    /\ UNCHANGED <<file, name, tables, busy, err, status, preview, previewErr, previewBusy,
                   activeTableId, toast, toastTimers, mountRefresh, pv>>

\* A success branch that leaves the form as it is.
Finish_noreset(i) ==
    /\ toast' = "File uploaded successfully"
    /\ toastTimers' = toastTimers + 1
    /\ UNCHANGED <<file, name>>
    /\ busy' = FALSE
    /\ up' = [up EXCEPT ![i] = Returned]

\* A loop that gives up when its timer fires.
WakeUncounted_giveup(i) ==
    /\ up[i].pc = "sleep"
    /\ Thrown(i, "Upload timed out.")
    /\ UNCHANGED <<viewVars, apiVars, appVars>>
    /\ UNCHANGED <<file, name, tables, status, preview, previewErr, previewBusy,
                   activeTableId, toast, toastTimers, mountRefresh, pv>>

\* The 500 ms timer fires and the loop issues the next getJob, the attempts
\* left uncounted: while (true) keeps no count of its iterations.
WakeUncounted(i) ==
    /\ up[i].pc = "sleep"
    /\ up' = [up EXCEPT ![i] = [@ EXCEPT !.pc = "awaitJob", !.job = NoJob]]
    /\ UNCHANGED <<viewVars, apiVars, appVars>>
    /\ UNCHANGED <<file, name, tables, busy, err, status, preview, previewErr, previewBusy,
                   activeTableId, toast, toastTimers, mountRefresh, pv>>

\* The end of the success branch: toast, reset of file and name, break, finally.
Finish(i) ==
    /\ toast' = "File uploaded successfully"
    /\ toastTimers' = toastTimers + 1
    /\ file' = Null
    /\ name' = DefaultName
    /\ busy' = FALSE
    /\ up' = [up EXCEPT ![i] = Returned]

\* loadPreview up to its await: the state it sets and the request it sends.
PreviewRequest(tableId) == SliceRequest(tableId, 0, 50, None)

LoadPreviewStart(tableId) ==
    /\ activeTableId' = tableId
    /\ previewBusy' = TRUE
    /\ previewErr' = Null

\* loadPreview after its await resolved with slice s.
LoadPreviewOk(s) ==
    /\ preview' = s
    /\ previewBusy' = FALSE

\* loadPreview after its await rejected with message m.
LoadPreviewFailed(m) ==
    /\ previewErr' = ErrText(m)
    /\ preview' = NoSlice
    /\ previewBusy' = FALSE

\* await refresh() of the success branch resolves with the list t.
RefreshResp(i, t) ==
    /\ up[i].pc = "awaitRefresh"
    /\ tables' = t
    /\ IF Truthy(up[i].job.table_id)
       THEN /\ LoadPreviewStart(up[i].job.table_id)
            /\ up' = [up EXCEPT ![i] = [@ EXCEPT !.pc = "awaitPreview",
                        !.slices = Append(@, PreviewRequest(up[i].job.table_id))]]
            /\ UNCHANGED <<file, name, busy, toast, toastTimers>>
       ELSE /\ Finish(i)
            /\ UNCHANGED <<activeTableId, previewBusy, previewErr>>
    /\ UNCHANGED <<viewVars, apiVars, appVars>>
    /\ UNCHANGED <<err, status, preview, mountRefresh, pv>>

\* await refresh() rejects: the error leaves the loop through the catch.
RefreshFail(i, m) ==
    /\ up[i].pc = "awaitRefresh"
    /\ Thrown(i, m)
    /\ UNCHANGED <<viewVars, apiVars, appVars>>
    /\ UNCHANGED <<file, name, tables, status, preview, previewErr, previewBusy,
                   activeTableId, toast, toastTimers, mountRefresh, pv>>

\* The getSlice of the upload's loadPreview resolves.
UploadPreviewResp(i) ==
    /\ up[i].pc = "awaitPreview"
    /\ LoadPreviewOk(SliceOf(up[i].slices[Len(up[i].slices)]))
    /\ Finish(i)
    /\ UNCHANGED <<viewVars, apiVars, appVars>>
    /\ UNCHANGED <<tables, err, status, previewErr, activeTableId, mountRefresh, pv>>

\* The getSlice of the upload's loadPreview rejects: loadPreview catches it.
UploadPreviewFail(i, m) ==
    /\ up[i].pc = "awaitPreview"
    /\ LoadPreviewFailed(m)
    /\ Finish(i)
    /\ UNCHANGED <<viewVars, apiVars, appVars>>
    /\ UNCHANGED <<tables, err, status, activeTableId, mountRefresh, pv>>

\* setTimeout(() => setToast(null), 2400) fires.
ToastTimeout ==
    /\ toastTimers > 0
    /\ toastTimers' = toastTimers - 1
    /\ toast' = Null
    /\ UNCHANGED <<viewVars, apiVars, appVars>>
    /\ UNCHANGED <<file, name, tables, busy, err, status, preview, previewErr, previewBusy,
                   activeTableId, mountRefresh, up, pv>>

\* Click on a row of the table list: loadPreview(t.table_id) up to its await.
ClickTable(k, t) ==
    /\ pv[k].pc = "idle"
    /\ \A j \in 1..(k - 1) : pv[j].pc # "idle"
    /\ t \in tables
    /\ LoadPreviewStart(t)
    /\ pv' = [pv EXCEPT ![k] = [pc |-> "awaitSlice", table |-> t]]
    /\ UNCHANGED <<viewVars, apiVars, appVars>>
    /\ UNCHANGED <<file, name, tables, busy, err, status, preview, toast, toastTimers,
                   mountRefresh, up>>

ClickPreviewResp(k) ==
    /\ pv[k].pc = "awaitSlice"
    /\ LoadPreviewOk(SliceOf(PreviewRequest(pv[k].table)))
    /\ pv' = [pv EXCEPT ![k] = [PvIdle EXCEPT !.pc = "done"]]
    /\ UNCHANGED <<viewVars, apiVars, appVars>>
    /\ UNCHANGED <<file, name, tables, busy, err, status, previewErr, activeTableId,
                   toast, toastTimers, mountRefresh, up>>

ClickPreviewFail(k, m) ==
    /\ pv[k].pc = "awaitSlice"
    /\ LoadPreviewFailed(m)
    /\ pv' = [pv EXCEPT ![k] = [PvIdle EXCEPT !.pc = "done"]]
    /\ UNCHANGED <<viewVars, apiVars, appVars>>
    /\ UNCHANGED <<file, name, tables, busy, err, status, activeTableId,
                   toast, toastTimers, mountRefresh, up>>

\* -------------------------------------------------------------- DataTable
\* hlRows = new Set((highlight?.rows || []).map(r => r - rowOffset)), without the offset.
hlRows_nooffset(highlight, rowOffset) ==
    {highlight[1].rows[j] : j \in 1..Len(highlight[1].rows)}

\* hlRows = new Set((highlight?.rows || []).map(r => r - rowOffset)); highlight
\* is optional (None on the upload page).
hlRows(highlight, rowOffset) ==
    IF highlight = None THEN {}
    ELSE {highlight[1].rows[j] - rowOffset : j \in 1..Len(highlight[1].rows)}

\* hlCols = new Set(highlight?.cols || [])
hlCols(highlight) ==
    IF highlight = None THEN {}
    ELSE {highlight[1].cols[j] : j \in 1..Len(highlight[1].cols)}

\* isRowHL of the row at window position i (0-based).
isRowHL(i, highlight, rowOffset) == i \in hlRows(highlight, rowOffset)

\* A cell marked whenever its row is.
isCellHL_row(i, c, highlight, rowOffset) == isRowHL(i, highlight, rowOffset)

\* isCellHL of the cell of column c in the row at window position i.
isCellHL(i, c, highlight, rowOffset) == isRowHL(i, highlight, rowOffset) /\ c \in hlCols(highlight)

\* An index cell that shows the position in the window.
rowIndex_local(i, rowOffset) == i

\* The number shown in the index cell of the row at window position i.
rowIndex(i, rowOffset) == i + rowOffset

\* ---------------------------------------------------------- HighlightView
\* Math.min() and Math.max() of no arguments.
PosInf == 1000000
NegInf == -1000000
Finite(x) == x # PosInf /\ x # NegInf

\* x + n in floating point, for an integer n.
AddX(x, n) == IF Finite(x) THEN x + n ELSE x

SeqElems(q) == {q[j] : j \in 1..Len(q)}

\* Math.min(...rows), Math.max(...rows)
MinOf(rows) ==
    IF rows = <<>> THEN PosInf
    ELSE CHOOSE m \in SeqElems(rows) : \A x \in SeqElems(rows) : m <= x
MaxOf(rows) ==
    IF rows = <<>> THEN NegInf
    ELSE CHOOSE m \in SeqElems(rows) : \A x \in SeqElems(rows) : m >= x

HighlightIds == {"h1", "h2"}
Runs == 1..MaxRuns

RowValues == (0..MaxRow) \cup {ExampleRow}
RowArrays == UNION {[1..n -> RowValues] : n \in 0..MaxCited}
ColArrays == {<<>>, <<"amount">>, <<"amount", "city">>}

\* An evidence entry: range.rows and range.cols, each optional.
Evidence(r, c) == [rows |-> r, cols |-> c]

\* The payload of GET /highlights/{id}; rows and cols are optional.
Highlight(t, ev, r, c) == [of |-> Null, table_id |-> t, evidence |-> ev, rows |-> r, cols |-> c]

NoHighlight == Highlight(Null, <<>>, None, None)

\* Payloads whose first evidence entry carries the citation.
EvidencePayloads ==
    {Highlight(t, <<Evidence(Some(r), Some(c))>>, None, None) :
        t \in TableIds, r \in RowArrays, c \in ColArrays}

\* Payloads that make the effect fall back: no evidence, an entry without a
\* range, a second entry.
FallbackPayloads ==
    {Highlight("t1", <<>>, r, c) : r \in {None, Some(<<3>>)}, c \in {None, Some(<<"city">>)}}
    \cup {Highlight("t1", <<Evidence(None, None)>>, Some(<<ExampleRow>>), Some(<<"amount">>))}
    \cup {Highlight("t1", <<Evidence(Some(<<2>>), Some(<<"city">>)), Evidence(Some(<<ExampleRow>>), None)>>,
                    Some(<<5>>), None)}

Payloads == EvidencePayloads \cup FallbackPayloads

\* The payloads of the runs that overlap.
RacePayloads ==
    {Highlight(t, <<Evidence(Some(r), Some(<<"amount">>))>>, None, None) :
        t \in TableIds, r \in {<<ExampleRow>>, <<0, 6>>}}

\* The last evidence entry in place of the first.
First_last(h) == IF Len(h.evidence) > 0 THEN Some(h.evidence[Len(h.evidence)]) ELSE None

\* const first = (h.evidence || [])[0]
First(h) == IF Len(h.evidence) > 0 THEN Some(h.evidence[1]) ELSE None

\* first?.range?.rows || h.rows || [0]   (an array is truthy, also when empty)
RowsOf(h) ==
    IF First(h) # None /\ First(h)[1].rows # None THEN First(h)[1].rows[1]
    ELSE IF h.rows # None THEN h.rows[1]
    ELSE <<0>>

\* first?.range?.cols || h.cols || []
ColsOf(h) ==
    IF First(h) # None /\ First(h)[1].cols # None THEN First(h)[1].cols[1]
    ELSE IF h.cols # None THEN h.cols[1]
    ELSE <<>>

PadBefore == 5
PadAfter == 6

\* A window start that is padded for the first citation shown only and is the
\* top of the table for every later one.
RowFrom_sticky(rows) ==
    IF hl = NoHighlight THEN Max(0, AddX(MinOf(rows), 0 - PadBefore)) ELSE 0

\* A window that starts at the first cited row.
RowFrom_nopad(rows) == Max(0, MinOf(rows))

\* Math.max(0, Math.min(...rows) - 5)
RowFrom(rows) == Max(0, AddX(MinOf(rows), 0 - PadBefore))

\* Math.max(...rows) + 6
RowTo(rows) == AddX(MaxOf(rows), PadAfter)

\* getSlice(h.table_id, rowFrom, rowTo, cols.length ? cols : undefined)
WindowRequest(tableId, rowFrom, rowTo, cols) ==
    SliceRequest(tableId, rowFrom, rowTo, IF Len(cols) > 0 THEN Some(cols) ELSE None)

\* { ...s, rowFrom, highlight: { rows, cols } } for the run with locals run
Window(s, run) ==
    [of |-> run.id, table |-> s.table, columns |-> s.columns, offset |-> s.offset,
     limit |-> s.limit, nrows |-> s.nrows, rowFrom |-> run.rowFrom,
     highlight |-> Some([rows |-> run.rows, cols |-> run.cols])]

NoWindow ==
    [of |-> Null, table |-> Null, columns |-> <<>>, offset |-> 0, limit |-> 0, nrows |-> 0,
     rowFrom |-> 0, highlight |-> None]

NoRequest == [table |-> Null, offset |-> 0, limit |-> 0, cols |-> None]

\* The locals of a run of the effect; req is its getSlice request.
HvIdle == [pc |-> "idle", id |-> Null, h |-> NoHighlight, rows |-> <<>>, cols |-> <<>>,
           rowFrom |-> 0, rowTo |-> 0, req |-> NoRequest]

\* A run of the effect that has returned.
HvEnded(pc) == [HvIdle EXCEPT !.pc = pc]

\* The upload page when another route is shown.
UploadUnmounted ==
    /\ file = Null
    /\ name = DefaultName
    /\ tables = {}
    /\ busy = FALSE
    /\ err = Null
    /\ status = Null
    /\ preview = NoSlice
    /\ previewErr = Null
    /\ previewBusy = FALSE
    /\ activeTableId = Null
    /\ toast = Null
    /\ toastTimers = 0
    /\ mountRefresh = "unmounted"
    /\ up = [i \in Uploads |-> UpIdle]
    /\ pv = [k \in Clicks |-> PvIdle]

\* The highlight view when another route is shown.
ViewUnmounted ==
    /\ highlightId = Null
    /\ hl = NoHighlight
    /\ slice = NoWindow
    /\ viewErr = Null
    /\ tableName = Null
    /\ hv = [k \in Runs |-> HvIdle]

\* The view mounted at /highlight/:highlightId: the effect has run up to its
\* first await, getHighlight(highlightId).
ViewInit ==
    /\ highlightId \in HighlightIds
    /\ hl = NoHighlight
    /\ slice = NoWindow
    /\ viewErr = Null
    /\ tableName = Null
    /\ hv = [k \in Runs |-> IF k = 1 THEN [HvIdle EXCEPT !.pc = "awaitHighlight", !.id = highlightId]
                            ELSE HvIdle]

\* The route parameter changes: the effect runs again, for the new id.
Navigate(k, id) ==
    /\ hv[k].pc = "idle"
    /\ \A j \in 1..(k - 1) : hv[j].pc # "idle"
    /\ id # highlightId
    /\ highlightId' = id
    /\ hv' = [hv EXCEPT ![k] = [HvIdle EXCEPT !.pc = "awaitHighlight", !.id = id]]
    /\ UNCHANGED <<hl, slice, viewErr, tableName>>
    /\ UNCHANGED <<uploadVars, apiVars, appVars>>

\* .catch(e => setErr(String(e?.message || e))) of run k.
ViewThrown(k, m) ==
    /\ viewErr' = ErrText(m)
    /\ hv' = [hv EXCEPT ![k] = HvEnded("failed")]

\* getHighlight resolves with h: setHl(h), the window, getSlice.
HighlightResp(k, h) ==
    /\ hv[k].pc = "awaitHighlight"
    /\ hl' = [h EXCEPT !.of = hv[k].id]
    /\ hv' = [hv EXCEPT ![k] =
                [pc |-> "awaitSlice", id |-> hv[k].id, h |-> [h EXCEPT !.of = hv[k].id],
                 rows |-> RowsOf(h), cols |-> ColsOf(h),
                 rowFrom |-> RowFrom(RowsOf(h)), rowTo |-> RowTo(RowsOf(h)),
                 req |-> WindowRequest(h.table_id, RowFrom(RowsOf(h)), RowTo(RowsOf(h)), ColsOf(h))]]
    /\ UNCHANGED <<highlightId, slice, viewErr, tableName>>
    /\ UNCHANGED <<uploadVars, apiVars, appVars>>

HighlightFail(k, m) ==
    /\ hv[k].pc = "awaitHighlight"
    /\ ViewThrown(k, m)
    /\ UNCHANGED <<highlightId, hl, slice, tableName>>
    /\ UNCHANGED <<uploadVars, apiVars, appVars>>

\* getSlice resolves: setSlice, then listTables.  The backend answers a
\* request only if its offset is a number.
WindowResp(k) ==
    /\ hv[k].pc = "awaitSlice"
    /\ Finite(hv[k].req.offset)
    /\ slice' = Window(SliceOf(hv[k].req), hv[k])
    /\ hv' = [hv EXCEPT ![k].pc = "awaitTables"]
    /\ UNCHANGED <<highlightId, hl, viewErr, tableName>>
    /\ UNCHANGED <<uploadVars, apiVars, appVars>>

WindowFail(k, m) ==
    /\ hv[k].pc = "awaitSlice"
    /\ ViewThrown(k, m)
    /\ UNCHANGED <<highlightId, hl, slice, tableName>>
    /\ UNCHANGED <<uploadVars, apiVars, appVars>>

\* listTables resolves with the list t: setTableName(t?.name || null).
ViewTablesResp(k, t) ==
    /\ hv[k].pc = "awaitTables"
    /\ tableName' = IF hv[k].h.table_id \in t THEN Or(TableNameOf(hv[k].h.table_id), Null) ELSE Null
    /\ hv' = [hv EXCEPT ![k] = HvEnded("done")]
    /\ UNCHANGED <<highlightId, hl, slice, viewErr>>
    /\ UNCHANGED <<uploadVars, apiVars, appVars>>

\* listTables rejects: catch { setTableName(null) }.
ViewTablesFail(k) ==
    /\ hv[k].pc = "awaitTables"
    /\ tableName' = Null
    /\ hv' = [hv EXCEPT ![k] = HvEnded("done")]
    /\ UNCHANGED <<highlightId, hl, slice, viewErr>>
    /\ UNCHANGED <<uploadVars, apiVars, appVars>>

\* ------------------------------------------------- getSlice on its own
SliceArgs == (0 - MaxArg)..MaxArg

NoCall == [pc |-> "idle", tableId |-> Null, rowFrom |-> 0, rowTo |-> 0, cols |-> None,
           req |-> NoRequest, result |-> NoSlice]

\* No getSlice invocation outside the pages.
ApiIdle == call = NoCall

\* getSlice(tableId, rowFrom, rowTo, cols) up to its await fetch(url).
getSlice(tableId, rowFrom, rowTo, cols) ==
    /\ call.pc = "idle"
    /\ call' = [pc |-> "awaitFetch", tableId |-> tableId, rowFrom |-> rowFrom, rowTo |-> rowTo,
                cols |-> cols, req |-> SliceRequest(tableId, rowFrom, rowTo, cols),
                result |-> NoSlice]
    /\ UNCHANGED <<uploadVars, viewVars, appVars>>

\* fetch resolves with a 2xx answer: getSlice returns { ...data, rows, offset, limit }.
FetchResp ==
    /\ call.pc = "awaitFetch"
    /\ call' = [call EXCEPT !.pc = "resolved", !.result = SliceOf(call.req)]
    /\ UNCHANGED <<uploadVars, viewVars, appVars>>

\* if (!res.ok) throw new Error(await res.text())
FetchFail ==
    /\ call.pc = "awaitFetch"
    /\ call' = [call EXCEPT !.pc = "rejected"]
    /\ UNCHANGED <<uploadVars, viewVars, appVars>>

\* -------------------------------------------------- App: MCP status poller
Checks == 1..MaxChecks

\* Answers of GET /mcp-status: res.status, absent in a malformed answer.
McpAnswers == {"online", "offline", "unknown", Undefined}

\* a ?? b
NullishOr(a, b) == IF a \in {Null, Undefined} THEN b ELSE a

\* A setter called without looking at the flag.
IfMounted_always(flag, next, cur) == next

\* if (mounted) setMcpStatus(next)
IfMounted(flag, next, cur) == IF flag THEN next ELSE cur

\* The shell with its poller left out.
AppQuiet ==
    /\ mcpStatus = "unknown"
    /\ mounted = FALSE
    /\ interval = FALSE
    /\ chk = [c \in Checks |-> "idle"]

\* The shell mounted: the effect has set mounted, called checkStatus() up to
\* its await and set the interval.
AppInit ==
    /\ mcpStatus = "unknown"
    /\ mounted = TRUE
    /\ interval = TRUE
    /\ chk = [c \in Checks |-> IF c = 1 THEN "awaitStatus" ELSE "idle"]

\* The interval fires: checkStatus() up to its await.
Tick(c) ==
    /\ interval
    /\ chk[c] = "idle"
    /\ \A j \in 1..(c - 1) : chk[j] # "idle"
    /\ chk' = [chk EXCEPT ![c] = "awaitStatus"]
    /\ UNCHANGED <<mcpStatus, mounted, interval>>
    /\ UNCHANGED <<uploadVars, viewVars, apiVars>>

\* getMcpStatus resolves with res.status = s.
StatusResp(c, s) ==
    /\ chk[c] = "awaitStatus"
    /\ mcpStatus' = IfMounted(mounted, NullishOr(s, "unknown"), mcpStatus)
    /\ chk' = [chk EXCEPT ![c] = IF mounted THEN "applied" ELSE "discarded"]
    /\ UNCHANGED <<mounted, interval>>
    /\ UNCHANGED <<uploadVars, viewVars, apiVars>>

\* getMcpStatus rejects: catch { if (mounted) setMcpStatus("offline") }
StatusFail(c) ==
    /\ chk[c] = "awaitStatus"
    /\ mcpStatus' = IfMounted(mounted, "offline", mcpStatus)
    /\ chk' = [chk EXCEPT ![c] = IF mounted THEN "applied" ELSE "discarded"]
    /\ UNCHANGED <<mounted, interval>>
    /\ UNCHANGED <<uploadVars, viewVars, apiVars>>

\* The cleanup of the effect: mounted = false; window.clearInterval(id).
Unmount ==
    /\ mounted
    /\ mounted' = FALSE
    /\ interval' = FALSE
    /\ UNCHANGED <<mcpStatus, chk>>
    /\ UNCHANGED <<uploadVars, viewVars, apiVars>>

Init == UploadInit /\ ViewUnmounted /\ ApiIdle /\ AppQuiet

Next ==
    \/ \E t \in TableLists : MountRefreshResp(t)
    \/ MountRefreshFail
    \/ SelectFile
    \/ ClickUpload
    \/ \E i \in Uploads : UploadResp(i, JobIdOf(i))
    \/ \E i \in Uploads : UploadResp(i, Undefined)
    \/ \E i \in Uploads, m \in FailMessages : UploadFail(i, m)
    \/ \E i \in Uploads, job \in JobResponses : JobResp(i, job)
    \/ \E i \in Uploads, m \in FailMessages : JobFail(i, m)
    \/ \E i \in Uploads : Wake(i)
    \/ \E i \in Uploads, t \in TableLists : RefreshResp(i, t)
    \/ \E i \in Uploads, m \in FailMessages : RefreshFail(i, m)
    \/ \E i \in Uploads : UploadPreviewResp(i)
    \/ \E i \in Uploads, m \in FailMessages : UploadPreviewFail(i, m)
    \/ ToastTimeout
    \/ \E k \in Clicks, t \in TableIds : ClickTable(k, t)
    \/ \E k \in Clicks : ClickPreviewResp(k)
    \/ \E k \in Clicks, m \in FailMessages : ClickPreviewFail(k, m)

Spec == Init /\ [][Next]_vars

\* The upload form: uploads while the user edits the file and the display name.
NextForm ==
    \/ \E t \in TableLists : MountRefreshResp(t)
    \/ MountRefreshFail
    \/ SelectFile
    \/ \E n \in Names : EditName(n)
    \/ ClickUpload
    \/ \E i \in Uploads : UploadResp(i, JobIdOf(i))
    \/ \E i \in Uploads : UploadResp(i, Undefined)
    \/ \E i \in Uploads, m \in FailMessages : UploadFail(i, m)
    \/ \E i \in Uploads, job \in JobResponses : JobResp(i, job)
    \/ \E i \in Uploads, m \in FailMessages : JobFail(i, m)
    \/ \E i \in Uploads : Wake(i)
    \/ \E i \in Uploads, t \in TableLists : RefreshResp(i, t)
    \/ \E i \in Uploads, m \in FailMessages : RefreshFail(i, m)
    \/ \E i \in Uploads : UploadPreviewResp(i)
    \/ \E i \in Uploads, m \in FailMessages : UploadPreviewFail(i, m)
    \/ ToastTimeout

SpecForm == Init /\ [][NextForm]_vars

\* Each request of invocation i is answered, by a response or by a failure.
UploadAnswered(i) ==
    \/ UploadResp(i, JobIdOf(i))
    \/ UploadResp(i, Undefined)
    \/ \E m \in FailMessages : UploadFail(i, m)
JobAnswered(i) ==
    \/ \E job \in JobResponses : JobResp(i, job)
    \/ \E m \in FailMessages : JobFail(i, m)
RefreshAnswered(i) ==
    \/ \E t \in TableLists : RefreshResp(i, t)
    \/ \E m \in FailMessages : RefreshFail(i, m)
PreviewAnswered(i) ==
    \/ UploadPreviewResp(i)
    \/ \E m \in FailMessages : UploadPreviewFail(i, m)

\* The polling loop against a backend that may answer with a non-terminal
\* status any number of times.
NextPoll ==
    \/ \E t \in TableLists : MountRefreshResp(t)
    \/ MountRefreshFail
    \/ SelectFile
    \/ ClickUpload
    \/ \E i \in Uploads : UploadAnswered(i)
    \/ \E i \in Uploads : JobAnswered(i)
    \/ \E i \in Uploads : WakeUncounted(i)
    \/ \E i \in Uploads : RefreshAnswered(i)
    \/ \E i \in Uploads : PreviewAnswered(i)
    \/ ToastTimeout

\* Every request in flight is eventually answered and every timer set fires.
FairPoll ==
    \A i \in Uploads :
        /\ WF_vars(UploadAnswered(i))
        /\ WF_vars(JobAnswered(i))
        /\ WF_vars(WakeUncounted(i))
        /\ WF_vars(RefreshAnswered(i))
        /\ WF_vars(PreviewAnswered(i))

SpecPoll == Init /\ [][NextPoll]_vars /\ FairPoll

\* The highlight view showing one citation, for every payload.
InitProj == UploadUnmounted /\ ViewInit /\ ApiIdle /\ AppQuiet

NextProj ==
    \/ \E h \in Payloads : HighlightResp(1, h)
    \/ \E m \in FailMessages : HighlightFail(1, m)
    \/ WindowResp(1)
    \/ \E m \in FailMessages : WindowFail(1, m)
    \/ \E t \in TableLists : ViewTablesResp(1, t)
    \/ ViewTablesFail(1)

SpecProj == InitProj /\ [][NextProj]_vars

\* The highlight view while the route parameter changes.
InitView == UploadUnmounted /\ ViewInit /\ ApiIdle /\ AppQuiet

NextView ==
    \/ \E k \in Runs, id \in HighlightIds : Navigate(k, id)
    \/ \E k \in Runs, h \in RacePayloads : HighlightResp(k, h)
    \/ \E k \in Runs, m \in FailMessages : HighlightFail(k, m)
    \/ \E k \in Runs : WindowResp(k)
    \/ \E k \in Runs, m \in FailMessages : WindowFail(k, m)
    \/ \E k \in Runs, t \in TableLists : ViewTablesResp(k, t)
    \/ \E k \in Runs : ViewTablesFail(k)

SpecView == InitView /\ [][NextView]_vars

\* getSlice called with every pair of row bounds.
InitSlice == UploadUnmounted /\ ViewUnmounted /\ ApiIdle /\ AppQuiet

NextSlice ==
    \/ \E t \in TableIds, rowFrom \in SliceArgs, rowTo \in SliceArgs,
          cols \in {None, Some(<<>>), Some(<<"amount">>)} : getSlice(t, rowFrom, rowTo, cols)
    \/ FetchResp
    \/ FetchFail

SpecSlice == InitSlice /\ [][NextSlice]_vars

\* The app shell from its mount to after its unmount.
InitApp == UploadUnmounted /\ ViewUnmounted /\ ApiIdle /\ AppInit

NextApp ==
    \/ \E c \in Checks : Tick(c)
    \/ \E c \in Checks, s \in McpAnswers : StatusResp(c, s)
    \/ \E c \in Checks : StatusFail(c)
    \/ Unmount

SpecApp == InitApp /\ [][NextApp]_vars

\* ------------------------------------------------------------------ claims
TerminalStatuses == {"done", "indexing", "error"}

\* Invocation i is past its polling loop: no getJob of it is in flight and none is scheduled.
Stopped(i) == up[i].pc \in {"awaitRefresh", "awaitPreview", "returned"}

\* C1: within one upload, the step that observes a getJob response with status
\* done, indexing or error leaves the polling loop, and an upload that has left
\* the loop never issues a getJob again (it never returns to awaitJob or sleep).
C1_NoPollAfterTerminal ==
    [][\A i \in Uploads :
         /\ (up[i].pc = "awaitJob" /\ up'[i] # up[i]) =>
              \A job \in JobResponses :
                 (job.status \in TerminalStatuses /\ JobResp(i, job)) => Stopped(i)'
         /\ Stopped(i) => Stopped(i)']_vars

C1_Witness == \E i \in Uploads : up[i].pc = "awaitRefresh" /\ up[i].polls >= 2

\* C2: the step that observes a job classifies it by status: done or indexing
\* goes on to the success branch holding the observed job (and its table_id),
\* error ends the upload in the catch, and every other status leaves the upload
\* waiting for the backoff timer, whose only continuation is the next getJob.
C2_Classification ==
    [][\A i \in Uploads :
         /\ (up[i].pc = "awaitJob" /\ up'[i] # up[i]) => \A job \in JobResponses : JobResp(i, job) =>
              IF job.status \in {"done", "indexing"}
              THEN up'[i].pc = "awaitRefresh" /\ up'[i].job.table_id = job.table_id
              ELSE IF job.status = "error"
              THEN up'[i].pc = "returned" /\ ~busy' /\ err' # Null
              ELSE up'[i].pc = "sleep" /\ up'[i].job = job /\ busy'
         /\ (up[i].pc = "sleep" /\ up'[i] # up[i]) =>
              (up'[i].pc = "awaitJob" /\ up'[i].polls = up[i].polls + 1)]_vars

C2_Witness == \E i \in Uploads : up[i].pc = "sleep" /\ up[i].job.status = "paused"

\* C3: the step that observes status error sets err to the job's message when
\* the message is present and non-empty, and to a non-empty default otherwise.
C3_ErrorMessage ==
    [][\A i \in Uploads :
         (up[i].pc = "awaitJob" /\ up'[i] # up[i]) =>
            \A job \in JobResponses :
               (job.status = "error" /\ JobResp(i, job)) =>
                  /\ err' \notin {Null, Undefined, ""}
                  /\ job.message \notin {Null, Undefined, ""} => err' = job.message]_vars

C3_Witness == err = "bad header row" /\ ~busy /\ \E i \in Uploads : up[i].pc = "returned"

\* C4: an upload that observed success ends having requested the table list
\* and, iff the observed job carried a table_id, exactly one slice of that
\* table with offset 0, limit 50 and no column list.
C4_PreviewIffTableId ==
    [][\A i \in Uploads :
         (up[i].pc \in {"awaitRefresh", "awaitPreview"} /\ up'[i].pc = "returned") =>
            /\ up[i].lists = 1
            /\ IF Truthy(up[i].job.table_id)
               THEN up[i].slices = <<[table |-> up[i].job.table_id, offset |-> 0,
                                      limit |-> 50, cols |-> None]>>
               ELSE up[i].slices = <<>>]_vars

\* C7: at most one getJob request is in flight.
C7_OneGetJobInFlight == Cardinality({i \in Uploads : up[i].pc = "awaitJob"}) <= 1

C7_Witness == \E i \in Uploads : up[i].pc = "awaitJob" /\ up[i].polls >= 2 /\ file # Null /\ busy

NoPreviewPending ==
    /\ \A i \in Uploads : up[i].pc # "awaitPreview"
    /\ \A k \in Clicks : pv[k].pc # "awaitSlice"

\* C8: once every slice response has arrived, the preview shown is a slice of
\* the table named by activeTableId.
C8_PreviewOfActiveTable ==
    (NoPreviewPending /\ preview # NoSlice) => preview.table = activeTableId

\* C10: a failed getJob is retried on the backoff schedule: the upload stays in
\* its polling loop and is not ended as failed.
C10_StatusFetchRetried ==
    [][\A i \in Uploads : \A m \in FailMessages :
         (up[i].pc = "awaitJob" /\ JobFail(i, m)) => (up'[i].pc \in {"sleep", "awaitJob"} /\ busy' /\ err' = err)]_vars

\* The elements of a non-empty set of integers that bound it.
Least(S) == CHOOSE m \in S : \A x \in S : m <= x
Greatest(S) == CHOOSE m \in S : \A x \in S : m >= x

\* The window of a run, as the formulas of the claim give it.
WindowAsClaimed(k) ==
    LET R == SeqElems(hv[k].rows) IN
    /\ R = SeqElems(RowsOf(hv[k].h))
    /\ hv[k].rowFrom = (IF Least(R) - 5 > 0 THEN Least(R) - 5 ELSE 0)
    /\ hv[k].rowTo = Greatest(R) + 6
    /\ \A r \in R : hv[k].rowFrom <= r /\ r < hv[k].rowTo

\* C5 as claimed: for a citation whose rows R are a non-empty array of
\* non-negative integers, rowFrom = max(0, min(R) - 5), rowTo = max(R) + 6 and
\* every row of R lies in [rowFrom, rowTo); R = {42} gives the window [37, 49).
C5_WindowAsClaimed ==
    \A k \in Runs :
        (hv[k].pc = "awaitSlice" /\ hv[k].rows # <<>>) =>
            /\ WindowAsClaimed(k)
            /\ hv[k].rows = <<42>> => (hv[k].rowFrom = 37 /\ hv[k].rowTo = 49)

\* C5, amended: for a citation whose rows R are a non-empty array of
\* non-negative integers, rowFrom = max(0, min(R) - 5), rowTo = max(R) + 6 and
\* every row of R lies in [rowFrom, rowTo); R = {42} gives the window [37, 48).
C5_Window ==
    \A k \in Runs :
        (hv[k].pc = "awaitSlice" /\ hv[k].rows # <<>>) =>
            /\ WindowAsClaimed(k)
            /\ hv[k].rows = <<42>> => (hv[k].rowFrom = 37 /\ hv[k].rowTo = 48)

C5_Witness ==
    \E k \in Runs : /\ hv[k].pc = "awaitSlice"
                    /\ hv[k].rows = <<42>>
                    /\ hv[k].rowFrom = 37
                    /\ hv[k].rowTo = 48

\* C6: in the window shown, the cell of column c in the row at position i is
\* highlighted iff i + rowOffset is a cited row and c a cited column; the row
\* is row-marked iff i + rowOffset is a cited row; and the row at position i is
\* row i + rowOffset of the table.
C6_Marks ==
    slice # NoWindow =>
        /\ slice.of = hl.of
        /\ slice.offset = slice.rowFrom
        /\ \A i \in 0..(slice.nrows - 1) :
             LET r == i + slice.rowFrom IN
             /\ rowIndex(i, slice.rowFrom) = r
             /\ isRowHL(i, slice.highlight, slice.rowFrom) <=> r \in SeqElems(RowsOf(hl))
             /\ \A c \in SeqElems(slice.columns) :
                  isCellHL(i, c, slice.highlight, slice.rowFrom)
                      <=> (r \in SeqElems(RowsOf(hl)) /\ c \in SeqElems(ColsOf(hl)))

C6_Witness ==
    /\ slice.rowFrom > 0
    /\ \E i \in 0..(slice.nrows - 1) : \E c \in SeqElems(slice.columns) :
          isCellHL(i, c, slice.highlight, slice.rowFrom)
    /\ \E i \in 0..(slice.nrows - 1) : ~isRowHL(i, slice.highlight, slice.rowFrom)

\* C9: a response of a run whose highlight id is no longer the route's id
\* changes nothing of what the view shows.
C9_LateResponseDiscarded ==
    [][\A k \in Runs :
         (hv[k].pc # "idle" /\ hv[k].id # highlightId /\ hv'[k] # hv[k])
            => UNCHANGED <<hl, slice, viewErr, tableName>>]_vars

\* C11: for integers rowFrom and rowTo with rowTo > max(0, rowFrom), the request
\* of getSlice has offset = max(0, rowFrom) and offset + limit = rowTo, also when
\* rowFrom is negative.
C11_HalfOpenRange ==
    (call.pc # "idle" /\ call.rowTo > Max(0, call.rowFrom)) =>
        /\ call.req.offset = Max(0, call.rowFrom)
        /\ call.req.offset + call.req.limit = call.rowTo

\* C12: for every pair of integers (rowFrom, rowTo), the request of getSlice has
\* offset >= 0 and limit >= 1.
C12_Clamped ==
    call.pc # "idle" => (call.req.offset >= 0 /\ call.req.limit >= 1)

C12_Witness ==
    /\ call.pc = "awaitFetch"
    /\ call.rowFrom < 0
    /\ call.rowTo <= call.rowFrom
    /\ call.req.offset = 0
    /\ call.req.limit = 1

\* C13: the step that receives a citation whose row set is empty ends the run
\* with an error shown and without a slice request.
C13_EmptyRowsRejected ==
    [][\A k \in Runs :
         (hv[k].pc = "awaitHighlight" /\ hv'[k] # hv[k]) =>
            \A h \in Payloads :
               (RowsOf(h) = <<>> /\ HighlightResp(k, h)) =>
                  (hv'[k].pc = "failed" /\ viewErr' # Null)]_vars

\* The table rows DataTable renders for window s, and those it row-marks.
Rendered(s) == {rowIndex(i, s.rowFrom) : i \in 0..(s.nrows - 1)}
Marked(s) ==
    {rowIndex(i, s.rowFrom) : i \in {j \in 0..(s.nrows - 1) : isRowHL(j, s.highlight, s.rowFrom)}}

\* The window shown holds fewer rows than were requested.
ShortWindow == slice # NoWindow /\ slice.nrows < slice.limit

\* What a short window shows of the cited rows.
ShortWindowMarks ==
    /\ viewErr = Null
    /\ \A r \in SeqElems(slice.highlight[1].rows) :
         IF r - slice.rowFrom >= slice.nrows
         THEN r \notin Rendered(slice) /\ r \notin Marked(slice)
         ELSE r \in Marked(slice)

\* The example of C14: rows = [42] on the table of 43 rows.
Example14 == slice # NoWindow /\ slice.table = "t1" /\ slice.highlight[1].rows = <<42>>

\* C14 as claimed: when the backend returns fewer rows than the window
\* requested, a cited row at window offset >= the number of returned rows is
\* neither rendered nor marked, a cited row inside the returned rows is
\* row-marked, and no error is shown; rows = [42] gives the window [37, 49), of
\* which 6 rows are returned, row 42 marked and rows 43-48 absent.
C14_ShortWindowAsClaimed ==
    /\ ShortWindow => ShortWindowMarks
    /\ Example14 =>
         /\ slice.rowFrom = 37 /\ slice.offset + slice.limit = 49
         /\ slice.nrows = 6
         /\ 42 \in Marked(slice)
         /\ \A r \in 43..48 : r \notin Rendered(slice)

\* C14, amended: the same, the window of rows = [42] being [37, 48).
C14_ShortWindow ==
    /\ ShortWindow => ShortWindowMarks
    /\ Example14 =>
         /\ slice.rowFrom = 37 /\ slice.offset + slice.limit = 48
         /\ slice.nrows = 6
         /\ 42 \in Marked(slice)
         /\ \A r \in 43..48 : r \notin Rendered(slice)

C14_Witness ==
    /\ Example14
    /\ ShortWindow
    /\ slice.nrows = 6
    /\ Marked(slice) = {42}
    /\ Rendered(slice) = 37..42

\* C15: when the cited columns are empty, the slice request carries no column
\* list and the window holds all columns, no data cell is highlighted, and
\* every cited row among the returned rows is row-marked.
C15_EmptyCols ==
    /\ \A k \in Runs :
         (hv[k].pc = "awaitSlice" /\ hv[k].cols = <<>>) => hv[k].req.cols = None
    /\ (slice # NoWindow /\ slice.highlight[1].cols = <<>>) =>
         /\ slice.columns = AllColumns
         /\ \A i \in 0..(slice.nrows - 1) : \A c \in SeqElems(slice.columns) :
              ~isCellHL(i, c, slice.highlight, slice.rowFrom)
         /\ \A r \in SeqElems(slice.highlight[1].rows) :
              (slice.rowFrom <= r /\ r - slice.rowFrom < slice.nrows)
                 => isRowHL(r - slice.rowFrom, slice.highlight, slice.rowFrom)

C15_Witness ==
    /\ slice # NoWindow
    /\ slice.highlight[1].cols = <<>>
    /\ slice.columns = AllColumns
    /\ \E i \in 0..(slice.nrows - 1) : isRowHL(i, slice.highlight, slice.rowFrom)

NoJobIdMessage == "Upload started, but no job id was returned."

\* C16: the step that receives a submission answer without a job id ends the
\* upload at once: the rejection message is shown, busy is cleared, no getJob,
\* table-list or slice request is sent by that step, and an upload that has
\* ended sends none later.
C16_NoJobId ==
    [][\A i \in Uploads :
         /\ (up[i].pc = "awaitUpload" /\ up'[i] # up[i]) =>
              (UploadResp(i, Undefined) =>
                  /\ up'[i].pc = "returned"
                  /\ err' = NoJobIdMessage
                  /\ ~busy'
                  /\ UNCHANGED <<tables, preview, previewBusy, activeTableId>>)
         /\ up[i].pc = "returned" => up'[i].pc = "returned"]_vars

C16_Witness ==
    /\ err = NoJobIdMessage
    /\ ~busy
    /\ \E i \in Uploads : up[i].pc = "returned"
    /\ preview = NoSlice

\* The step in which invocation i leaves its success branch by the break.
SuccessEnd(i) ==
    /\ up[i].pc \in {"awaitRefresh", "awaitPreview"}
    /\ up'[i].pc = "returned"
    /\ ~ \E m \in FailMessages : RefreshFail(i, m)

C18_FailedFrame ==
    [][\A i \in Uploads :
         (up[i].pc = "awaitJob" /\ up'[i] # up[i]) =>
            \A job \in JobResponses :
               (job.status = "error" /\ JobResp(i, job)) =>
                  /\ err' # Null
                  /\ UNCHANGED <<file, name, tables, activeTableId, preview>>
                  /\ up[i].lists = 0 /\ up[i].slices = <<>>
                  /\ up'[i].pc = "returned"]_vars

C18_Witness ==
    /\ err = "Upload failed."
    /\ file # Null
    /\ name = "Q3 sales"
    /\ ~busy
    /\ \E i \in Uploads : up[i].pc = "returned"

\* The status line of C19 for an observed job.
ClaimedLine(job) ==
    LET msg == IF job.message \in {Undefined, Null, ""} THEN "" ELSE job.message \o " "
        pct == IF job.progress = NoProgress THEN 0 ELSE job.progress
    IN  msg \o job.status \o " (" \o ToString(pct) \o "%)"

\* C19: the step that observes a non-terminal status sets the displayed status
\* to the line built from that job's message, status and progress (0 when
\* absent) and leaves the upload waiting for the timer; while it waits, the
\* status shown is the line of the job it observed last, and the next getJob is
\* sent only by the timer.
C19_StatusSurfaced ==
    [][\A i \in Uploads :
         /\ (up[i].pc = "awaitJob" /\ up'[i] # up[i]) =>
              \A job \in JobResponses :
                 (job.status \notin TerminalStatuses /\ JobResp(i, job)) =>
                    (status' = ClaimedLine(job) /\ up'[i].pc = "sleep")
         /\ up[i].pc = "sleep" => status = ClaimedLine(up[i].job)
         /\ (up[i].pc # "awaitJob" /\ up'[i].pc = "awaitJob") =>
              (up[i].pc \in {"awaitUpload", "sleep"})]_vars

C19_Witness ==
    /\ status = "processing (0%)"
    /\ \E i \in Uploads : up[i].pc = "sleep" /\ up[i].job.progress = NoProgress

\* Invocation i is in its polling loop.
InLoop(i) == up[i].pc \in {"awaitJob", "sleep"}

\* C20: with every request answered and every timer firing, (a) if the uploads
\* observe a non-terminal status only finitely often, then whenever busy is set
\* it is cleared later: every started upload finishes; (b) an upload that
\* observes non-terminal statuses for ever never finishes and busy stays set;
\* (c) the loop gives up on no attempt: a waiting upload always goes on to the
\* next getJob, and a non-terminal observation always leaves it waiting.
C20_Termination ==
    /\ (<>[](\A i \in Uploads : up[i].pc # "sleep")) => (busy ~> ~busy)
    /\ \A i \in Uploads : ([]<>(up[i].pc = "sleep")) => <>[](busy /\ InLoop(i))
    /\ [][\A i \in Uploads :
            /\ (up[i].pc = "sleep" /\ up'[i] # up[i]) => up'[i].pc = "awaitJob"
            /\ (up[i].pc = "awaitJob" /\ up'[i] # up[i]) =>
                 \A job \in JobResponses :
                    (job.status \notin TerminalStatuses /\ JobResp(i, job)) => up'[i].pc = "sleep"]_vars

\* Not a property of SpecPoll: the backend may answer with a non-terminal
\* status for ever, and the loop has no bound on its attempts.
EveryUploadFinishes == busy ~> ~busy

C20_Witness ==
    /\ \E i \in Uploads : up[i].pc = "returned"
    /\ ~busy
    /\ status = "parsing processing (30%)"
    /\ err = "bad header row"

\* The citation of a payload: the payload without the id it was asked for.
CitationOf(h) == [h EXCEPT !.of = Null]

\* What a run has computed from its payload: the rows and columns it cites,
\* the fetch window with its columns, and the window shown once the backend
\* answers, with its highlight set.
Projection(run) ==
    [rows |-> run.rows, cols |-> run.cols, rowFrom |-> run.rowFrom, rowTo |-> run.rowTo,
     req |-> run.req,
     shown |-> [Window(SliceOf(run.req), run) EXCEPT !.of = Null]]

Projecting(k) == hv[k].pc \in {"awaitSlice", "awaitTables"}

Succeeded(i) == up[i].pc \in {"awaitRefresh", "awaitPreview"}

\* C22: an upload that has observed done or indexing ends reported as a
\* success, whatever the answers to its table-list refresh and to its preview
\* fetch: no upload error is set, the success toast is shown and file and name
\* are reset.
C22_SuccessDespiteFollowUps ==
    [][\A i \in Uploads :
         (Succeeded(i) /\ up'[i].pc = "returned") =>
            /\ err' = Null
            /\ toast' = "File uploaded successfully"
            /\ file' = Null
            /\ name' = DefaultName]_vars

\* Invocation i of onUpload is in progress: past its guard and not returned.
InProgress(i) == up[i].pc \notin {"idle", "returned"}

\* C23: busy is true exactly while an onUpload invocation is in progress, an
\* invocation is started only with a file selected, and the step that ends an
\* invocation, on whatever path, leaves busy false.
C23_BusyWhileUploading ==
    [][/\ busy <=> \E i \in Uploads : InProgress(i)
       /\ busy' <=> \E i \in Uploads : InProgress(i)'
       /\ \A i \in Uploads :
            /\ (up[i].pc = "idle" /\ up'[i].pc # "idle") => (file # Null /\ busy')
            /\ (InProgress(i) /\ up'[i].pc = "returned") => ~busy']_vars

C23_Witness ==
    /\ ~busy
    /\ file # Null
    /\ err = "Error"
    /\ up[1].pc = "returned"
    /\ up[2].pc = "idle"

\* C24: the preview panel never holds a preview and a preview error together.
C24_PreviewOrError == ~(preview # NoSlice /\ previewErr # Null)

\* C25: previewBusy is true exactly while a slice request of some loadPreview
\* call is in flight.
C25_BusyWhilePending == previewBusy <=> ~NoPreviewPending

\* The rows and columns of a payload by the precedence of C26.
ClaimedRows(h) ==
    IF h.evidence # <<>> /\ h.evidence[1].rows # None THEN h.evidence[1].rows[1]
    ELSE IF h.rows # None THEN h.rows[1]
    ELSE <<0>>
ClaimedCols(h) ==
    IF h.evidence # <<>> /\ h.evidence[1].cols # None THEN h.evidence[1].cols[1]
    ELSE IF h.cols # None THEN h.cols[1]
    ELSE <<>>

\* No rows in the first evidence entry and none at the top level.
NoRowsAnywhere(h) ==
    /\ h.evidence = <<>> \/ h.evidence[1].rows = None
    /\ h.rows = None

\* C26: a run reads rows and cols by the fixed precedence (first evidence
\* entry, then top level, then [0] and []), so entries after the first change
\* nothing; a payload with no rows anywhere requests the window [0, 6), and the
\* window shown for it marks row 0 and shows no error.
C26_Precedence ==
    /\ \A k \in Runs :
         Projecting(k) =>
            /\ hv[k].rows = ClaimedRows(hv[k].h)
            /\ hv[k].cols = ClaimedCols(hv[k].h)
            /\ NoRowsAnywhere(hv[k].h) =>
                 (hv[k].rowFrom = 0 /\ hv[k].rowTo = 6 /\ hv[k].req.offset = 0 /\ hv[k].req.limit = 6)
    /\ (slice # NoWindow /\ NoRowsAnywhere(hl)) =>
         /\ slice.rowFrom = 0
         /\ slice.offset + slice.limit = 6
         /\ Marked(slice) = {0}
         /\ viewErr = Null

C26_Witness ==
    /\ slice # NoWindow
    /\ hl.evidence = <<>> /\ hl.rows = None /\ hl.cols = None
    /\ slice.rowFrom = 0
    /\ slice.offset + slice.limit = 6
    /\ Marked(slice) = {0}
    /\ \A i \in 0..(slice.nrows - 1) : \A c \in SeqElems(slice.columns) :
          ~isCellHL(i, c, slice.highlight, slice.rowFrom)

\* C27: the cleanup clears the interval with the flag; once unmounted, no
\* checkStatus is started, mcpStatus never changes, whatever response or
\* failure arrives, and the shell stays unmounted.
C27_PollerGuarded ==
    [][/\ (mounted /\ ~mounted') => ~interval'
       /\ ~mounted =>
            /\ mcpStatus' = mcpStatus
            /\ \A c \in Checks : chk[c] = "idle" => chk'[c] = "idle"
            /\ ~interval /\ ~mounted']_vars

C27_Witness ==
    /\ ~mounted
    /\ mcpStatus = "online"
    /\ \E c \in Checks : chk[c] = "discarded"
    /\ chk[MaxChecks] = "idle"

====
